---- MODULE Spec2Model ----
(***************************************************************************)
(* goat: the request router (DbManager), its shutdown goroutine, and the   *)
(* sharded map store (MapDb).                                              *)
(*                                                                         *)
(* DbManager (db manager file, lines 14-70) owns two local channels,       *)
(* sqlRequestChan (unbuffered) and mapRequestChan (capacity 100), starts a *)
(* shutdown goroutine and then loops over a select on the process-wide     *)
(* inbound channels.  The routing loop and the shutdown goroutine share    *)
(* nothing but the configuration flags.                                    *)
(***************************************************************************)
EXTENDS Integers, Sequences, FiniteSets, TLC

(* ------------------------------ bounds --------------------------------- *)
\* requests the callers submit under the mixed workload
MaxReq == 2
\* callers that may be parked on an inbound send at the same time (mixed)
MaxCallers == 2
\* requests the single caller of the burst workload submits beyond the
\* capacity of mapRequestChan
BurstExtra == 2

\* init() calls made on the one handle
MaxInitCalls == 2
\* addMap goroutines that get to run
MaxTasks == 2
\* rows the PeerList query returns
MaxRows == 2
\* Save, Load, Seeders and Leechers calls made on the persistent store
MaxOps == 2
\* Write and Read calls made on the map store
MaxMapOps == 3

(* ------------------------- program constants --------------------------- *)
\* mapRequestChan := make(chan Request, 100)
MapChanCap == 100
\* for i := 0; i < 16; i++
Fanout == 16

(* ------------------------------ values --------------------------------- *)
Nil == "nil"
Payload == "AnnounceLog"
General == "RequestChan"
Persistent == "PersistentChan"
NoReq == [id |-> 0, data |-> Nil, via |-> "none"]

VARIABLES
    cfgMap,          \* Static.Config.Map
    cfgSql,          \* Static.Config.Sql
    load,            \* the callers' workload: "mixed" or "burst"
    submitted,       \* number of requests the callers have submitted
    reqPending,      \* requests whose caller is parked on Static.RequestChan <-
    persPending,     \* requests whose caller is parked on Static.PersistentChan <-
    dpc,             \* DbManager: the line the routing code is at
    hold,            \* DbManager: the local variable hold
    mapRequestChan,  \* contents of the buffered channel
    sqlReceiving,    \* the persistent backend is parked on <-sqlRequestChan
    mapRecvd,        \* number of requests the map backend has received
    taken,           \* history: requests DbManager received, in order
    mapEnq,          \* history: requests sent on mapRequestChan, in order
    sqlEnq,          \* history: requests sent on sqlRequestChan, in order
    logChan,         \* history: messages sent on Static.LogChan
    shutdownChan,    \* contents of Static.ShutdownChan
    signalled,       \* the process has signalled shutdown
    spc,             \* shutdown goroutine: the line it is at
    dbBusy,          \* MapDb.Shutdown: Busy of the receiver copy db
    mapBusy,         \* mapDb.Busy of the handle
    sqlBusy,         \* sqlDb.Busy of the handle
    events,          \* history: calls and returns of the shutdown goroutine
    cfgSize,         \* Static.Config.Size
    hMapStor,        \* the handle's MapStor: 0 is nil, n the n-th root allocated
    hMapLookup,      \* the handle's MapLookup: 0 is nil, n the n-th index allocated
    containers,      \* the maps made by init and addMap: [root, path]
    tasks,           \* addMap goroutines started and not yet run: [root, path, size]
    stillMade,       \* containers made after the init() call of their root returned
    initCalls,       \* init() calls that have returned
    storAllocs,      \* root maps init() has allocated
    lookupAllocs,    \* lookup indexes init() has allocated
    ran,             \* addMap goroutines that have run
    openConns,       \* database handles opened by DbConnect and not closed
    plRows,          \* PeerList: the rows the query returns, [ip, port]
    plPc,            \* PeerList: where the call is
    plFail,          \* PeerList: the step of the call that failed, or "none"
    plIdx,           \* PeerList: rows scanned so far
    plBuf,           \* PeerList: buf
    filesUsers,      \* the rows of table files_users
    sqlOps,          \* Save, Load, Seeders and Leechers calls made
    last,            \* the last such call: [op, recv, fail, result, aborted]
    mapData,         \* the records held in the leaves of db.MapStor, by key
    mapWrites,       \* the requests MapDb.Write was called with, in order
    mapRead,         \* the last MapDb.Read: [key, at, reply]
    mapOps           \* MapDb.Write and MapDb.Read calls made

dvars == <<cfgMap, cfgSql, load, submitted, reqPending, persPending, dpc, hold,
           mapRequestChan, sqlReceiving, mapRecvd, taken, mapEnq, sqlEnq>>
svars == <<shutdownChan, signalled, spc, dbBusy, mapBusy, sqlBusy, events>>
tvars == <<cfgSize, hMapStor, hMapLookup, containers, tasks, stillMade, initCalls,
           storAllocs, lookupAllocs, ran>>
mvars == <<mapData, mapWrites, mapRead, mapOps>>
pvars == <<openConns, plRows, plPc, plFail, plIdx, plBuf, filesUsers, sqlOps, last, mvars>>
\* the variables of the persistent store that a PeerList call leaves alone
qvars == <<filesUsers, sqlOps, last, mvars>>
vars == <<dvars, svars, logChan, tvars, pvars>>

(* ------------------------------ helpers -------------------------------- *)
Range(s) == {s[i] : i \in 1..Len(s)}
Count(s, x) == Cardinality({i \in 1..Len(s) : s[i] = x})

(* --------------------------- the callers ------------------------------- *)
\* number of requests the workload submits
Limit == IF load = "burst" THEN MapChanCap + BurstExtra ELSE MaxReq
\* callers that can be parked on an inbound send at once
Callers == IF load = "burst" THEN 1 ELSE MaxCallers
\* the kinds of request number n: <<Data, inbound channel>>
Kinds(n) ==
    IF load = "burst"
    THEN {<<Payload, General>>}
    ELSE {Nil, Payload} \X {General, Persistent}

\* a caller executes Static.RequestChan <- r or Static.PersistentChan <- r
\* and parks until DbManager receives
Submit ==
    /\ submitted < Limit
    /\ Cardinality(reqPending \cup persPending) < Callers
    /\ \E k \in Kinds(submitted + 1) :
         LET r == [id |-> submitted + 1, data |-> k[1], via |-> k[2]] IN
         /\ reqPending' = IF k[2] = General THEN reqPending \cup {r} ELSE reqPending
         /\ persPending' = IF k[2] = Persistent THEN persPending \cup {r} ELSE persPending
    /\ submitted' = submitted + 1
    /\ UNCHANGED <<cfgMap, cfgSql, load, dpc, hold, mapRequestChan, sqlReceiving,
                   mapRecvd, taken, mapEnq, sqlEnq, svars, logChan, tvars, pvars>>

(* ------------------------ DbManager: routing --------------------------- *)
\* the chain with a final else that enters the loop of lines 61-66
ModeLoopAlwaysServes ==
    IF cfgMap /\ cfgSql THEN "L41"
    ELSE IF cfgMap THEN "L55"
    ELSE "L62"

\* lines 39, 53, 60, 67: the loop the flags select
ModeLoop ==
    IF cfgMap /\ cfgSql THEN "L41"
    ELSE IF cfgMap THEN "L55"
    ELSE IF cfgSql THEN "L62"
    ELSE "L68"

\* AfterRecvGeneral with an empty branch for nil Data at lines 43-44: the
\* request is taken and the select is entered again without any send
AfterRecvGeneralDropsNil(at, r) ==
    CASE at = "L41" -> IF r.data = Nil THEN "L41" ELSE "L46"
      [] at = "L55" -> "L57"
      [] at = "L62" -> "L64"

\* AfterRecvGeneral without the test of hold.Data at line 43
AfterRecvGeneralNoNilTest(at, r) ==
    CASE at = "L41" -> "L46"
      [] at = "L55" -> "L57"
      [] at = "L62" -> "L64"

\* lines 42-47, 56-57, 63-64: the send that follows a receive from
\* Static.RequestChan in the loop at line `at`
AfterRecvGeneral(at, r) ==
    CASE at = "L41" -> (IF r.data = Nil THEN "L44" ELSE "L46")
      [] at = "L55" -> "L57"
      [] at = "L62" -> "L64"

\* AfterSendMap with line 47 left out: the write is not copied to sqlRequestChan
AfterSendMapDropsSql(at) ==
    CASE at = "L44" -> "L41"
      [] at = "L46" -> "L41"
      [] at = "L57" -> "L55"

\* lines 44, 46, 57: where control goes once mapRequestChan <- hold is done
AfterSendMap(at) ==
    CASE at = "L44" -> "L41"
      [] at = "L46" -> "L47"
      [] at = "L57" -> "L55"

\* lines 47, 50, 64: where control goes once sqlRequestChan <- hold is done
AfterSendSql(at) ==
    CASE at = "L47" -> "L41"
      [] at = "L50" -> "L41"
      [] at = "L64" -> "L62"

SelectLines == {"L41", "L55", "L62"}
MapSendLines == {"L44", "L46", "L57"}
SqlSendLines == {"L47", "L50", "L64"}

\* lines 39-67: the if / else-if chain
ChooseMode ==
    /\ dpc = "L39"
    /\ dpc' = ModeLoop
    /\ UNCHANGED <<cfgMap, cfgSql, load, submitted, reqPending, persPending, hold,
                   mapRequestChan, sqlReceiving, mapRecvd, taken, mapEnq, sqlEnq,
                   svars, logChan, tvars, pvars>>

\* case hold := <-Static.RequestChan (lines 42, 56, 63)
RecvGeneral ==
    /\ dpc \in SelectLines
    /\ \E r \in reqPending :
         /\ reqPending' = reqPending \ {r}
         /\ hold' = r
         /\ taken' = Append(taken, r)
         /\ dpc' = AfterRecvGeneral(dpc, r)
    /\ UNCHANGED <<cfgMap, cfgSql, load, submitted, persPending, mapRequestChan,
                   sqlReceiving, mapRecvd, mapEnq, sqlEnq, svars, logChan, tvars, pvars>>

\* case hold := <-Static.PersistentChan (line 49): only the loop at line 41
\* has this case
RecvPersistent ==
    /\ dpc = "L41"
    /\ \E r \in persPending :
         /\ persPending' = persPending \ {r}
         /\ hold' = r
         /\ taken' = Append(taken, r)
    /\ dpc' = "L50"
    /\ UNCHANGED <<cfgMap, cfgSql, load, submitted, reqPending, mapRequestChan,
                   sqlReceiving, mapRecvd, mapEnq, sqlEnq, svars, logChan, tvars, pvars>>

\* a send on a channel of unbounded capacity
MapChanAlwaysRoom == TRUE

\* make(chan Request, 100) (line 21): a send completes when fewer than 100
\* requests are buffered
MapChanHasRoom == Len(mapRequestChan) < MapChanCap

\* mapRequestChan <- hold (lines 44, 46, 57): completes when the buffer has room
SendMap ==
    /\ dpc \in MapSendLines
    /\ MapChanHasRoom
    /\ mapRequestChan' = Append(mapRequestChan, hold)
    /\ mapEnq' = Append(mapEnq, hold)
    /\ dpc' = AfterSendMap(dpc)
    /\ hold' = IF dpc' \in SelectLines THEN NoReq ELSE hold
    /\ UNCHANGED <<cfgMap, cfgSql, load, submitted, reqPending, persPending,
                   sqlReceiving, mapRecvd, taken, sqlEnq, svars, logChan, tvars, pvars>>

\* sqlRequestChan <- hold (lines 47, 50, 64): the channel is unbuffered, the
\* send completes when the persistent backend is parked on the receive
SendSql ==
    /\ dpc \in SqlSendLines
    /\ sqlReceiving
    /\ sqlReceiving' = FALSE
    /\ sqlEnq' = Append(sqlEnq, hold)
    /\ dpc' = AfterSendSql(dpc)
    /\ hold' = NoReq
    /\ UNCHANGED <<cfgMap, cfgSql, load, submitted, reqPending, persPending,
                   mapRequestChan, mapRecvd, taken, mapEnq, svars, logChan, tvars, pvars>>

\* Static.LogChan <- "No database in use." (line 68), then DbManager returns
NoDatabase ==
    /\ dpc = "L68"
    /\ logChan' = Append(logChan, "No database in use.")
    /\ dpc' = "returned"
    /\ UNCHANGED <<cfgMap, cfgSql, load, submitted, reqPending, persPending, hold,
                   mapRequestChan, sqlReceiving, mapRecvd, taken, mapEnq, sqlEnq,
                   svars, tvars, pvars>>

(* ---------------------------- the backends ----------------------------- *)
\* the map backend receives the oldest request of mapRequestChan
MapConsume ==
    /\ mapRequestChan # <<>>
    /\ mapRequestChan' = Tail(mapRequestChan)
    /\ mapRecvd' = mapRecvd + 1
    /\ UNCHANGED <<cfgMap, cfgSql, load, submitted, reqPending, persPending, dpc,
                   hold, sqlReceiving, taken, mapEnq, sqlEnq, svars, logChan, tvars, pvars>>

\* the persistent backend comes back to its receive on sqlRequestChan
SqlBackendReceive ==
    /\ ~sqlReceiving
    /\ sqlReceiving' = TRUE
    /\ UNCHANGED <<cfgMap, cfgSql, load, submitted, reqPending, persPending, dpc,
                   hold, mapRequestChan, mapRecvd, taken, mapEnq, sqlEnq, svars,
                   logChan, tvars, pvars>>

\* a backend starts or finishes work: its handle's Busy flag changes
SetBusy ==
    /\ \/ cfgMap /\ mapBusy' = ~mapBusy /\ UNCHANGED sqlBusy
       \/ cfgSql /\ sqlBusy' = ~sqlBusy /\ UNCHANGED mapBusy
    /\ UNCHANGED <<dvars, shutdownChan, signalled, spc, dbBusy, events, logChan, tvars, pvars>>

(* ----------------------- the shutdown handshake ------------------------ *)
\* Static.ShutdownChan holds one value
ShutdownChanCap == 1

\* the process signals shutdown: Static.ShutdownChan <- true
SignalShutdown ==
    /\ ~signalled
    /\ Len(shutdownChan) < ShutdownChanCap
    /\ shutdownChan' = Append(shutdownChan, TRUE)
    /\ signalled' = TRUE
    /\ UNCHANGED <<dvars, spc, dbBusy, mapBusy, sqlBusy, events, logChan, tvars, pvars>>

\* another shutdown-waiter receives a value DbManager's goroutine sent
WaiterRecv ==
    /\ spc # "L26"
    /\ shutdownChan # <<>>
    /\ shutdownChan' = Tail(shutdownChan)
    /\ UNCHANGED <<dvars, signalled, spc, dbBusy, mapBusy, sqlBusy, events, logChan, tvars, pvars>>

(* -------------------- DbManager: shutdown goroutine -------------------- *)
\* line 26, the receive of Static.ShutdownChan <- <-Static.ShutdownChan
ShutdownWait ==
    /\ spc = "L26"
    /\ shutdownChan # <<>>
    /\ shutdownChan' = Tail(shutdownChan)
    /\ spc' = "L26s"
    /\ UNCHANGED <<dvars, signalled, dbBusy, mapBusy, sqlBusy, events, logChan, tvars, pvars>>

\* line 26, the send of the received value; line 27, Static.ShutdownChan <- true
ShutdownRelay ==
    /\ spc \in {"L26s", "L27"}
    /\ Len(shutdownChan) < ShutdownChanCap
    /\ shutdownChan' = Append(shutdownChan, TRUE)
    /\ spc' = IF spc = "L26s" THEN "L27" ELSE "L29"
    /\ UNCHANGED <<dvars, signalled, dbBusy, mapBusy, sqlBusy, events, logChan, tvars, pvars>>

\* CallMapShutdown as go mapDb.Shutdown(): the goroutine does not wait for it
CallMapShutdownNotAwaited ==
    /\ spc = "L29"
    /\ events' = IF cfgMap THEN Append(events, "MapDb.Shutdown") ELSE events
    /\ spc' = "L32"
    /\ UNCHANGED <<dvars, shutdownChan, signalled, dbBusy, mapBusy, sqlBusy, logChan, tvars, pvars>>

\* lines 29-30: if Static.Config.Map { mapDb.Shutdown() }.  Shutdown has a
\* value receiver (func (db MapDb) Shutdown()): the call copies *mapDb into db
CallMapShutdown ==
    /\ spc = "L29"
    /\ IF cfgMap
       THEN /\ dbBusy' = mapBusy
            /\ events' = Append(events, "MapDb.Shutdown")
            /\ spc' = "L63"
       ELSE /\ spc' = "L32"
            /\ UNCHANGED <<dbBusy, events>>
    /\ UNCHANGED <<dvars, shutdownChan, signalled, mapBusy, sqlBusy, logChan, tvars, pvars>>

\* the flag MapDb.Shutdown polls: for db.Busy (mapDb.go line 63)
PolledBusy == dbBusy

\* mapDb.go lines 63-65: for db.Busy { time.Sleep(500 * time.Millisecond) }
MapShutdownPoll ==
    /\ \/ spc = "L63" /\ spc' = (IF PolledBusy THEN "L64" ELSE "L67")
       \/ spc = "L64" /\ spc' = "L63"
    /\ UNCHANGED <<dvars, shutdownChan, signalled, dbBusy, mapBusy, sqlBusy, events,
                   logChan, tvars, pvars>>

\* mapDb.go line 67: Static.LogChan <- "stopping MapDb", then Shutdown returns
MapShutdownReturn ==
    /\ spc = "L67"
    /\ logChan' = Append(logChan, "stopping MapDb")
    /\ events' = Append(events, "MapDb.Shutdown returned")
    /\ spc' = "L32"
    /\ UNCHANGED <<dvars, shutdownChan, signalled, dbBusy, mapBusy, sqlBusy, tvars, pvars>>

\* CallSqlShutdown without the test of Static.Config.Sql at line 32
CallSqlShutdownUnconditional ==
    /\ spc = "L32"
    /\ events' = Append(events, "SqlDb.Shutdown")
    /\ spc' = "L33"
    /\ UNCHANGED <<dvars, shutdownChan, signalled, dbBusy, mapBusy, sqlBusy, logChan, tvars, pvars>>

\* lines 32-33: if Static.Config.Sql { sqlDb.Shutdown() }
CallSqlShutdown ==
    /\ spc = "L32"
    /\ IF cfgSql
       THEN /\ events' = Append(events, "SqlDb.Shutdown")
            /\ spc' = "L33"
       ELSE /\ spc' = "L36"
            /\ UNCHANGED events
    /\ UNCHANGED <<dvars, shutdownChan, signalled, dbBusy, mapBusy, sqlBusy, logChan, tvars, pvars>>

\* SqlDb.Shutdown blocks until the persistent backend is no longer busy
SqlShutdownReturn ==
    /\ spc = "L33"
    /\ ~sqlBusy
    /\ events' = Append(events, "SqlDb.Shutdown returned")
    /\ spc' = "L36"
    /\ UNCHANGED <<dvars, shutdownChan, signalled, dbBusy, mapBusy, sqlBusy, logChan, tvars, pvars>>

\* line 36: dbDoneChan <- true, received by the process supervisor
SendDone ==
    /\ spc = "L36"
    /\ events' = Append(events, "done")
    /\ spc' = "end"
    /\ UNCHANGED <<dvars, shutdownChan, signalled, dbBusy, mapBusy, sqlBusy, logChan, tvars, pvars>>

(* ------------------------- MapDb: the shard trie ----------------------- *)
\* the values of Static.Config.Size tried
Capacities == {1, 2, 16, 17, 256, 257}

HexChars == <<"0", "1", "2", "3", "4", "5", "6", "7",
              "8", "9", "a", "b", "c", "d", "e", "f">>
HexDigits == Range(HexChars)

\* strconv.Itoa(i) for i >= 0, as the sequence of its decimal digits
RECURSIVE Itoa(_)
Itoa(i) == IF i < 10 THEN <<i>> ELSE Append(Itoa(i \div 10), i % 10)

\* []byte(s) of a string of decimal digits: the ASCII code of each digit
Bytes(ds) == [k \in 1..Len(ds) |-> 48 + ds[k]]

\* hex.EncodeToString: two lower-case hexadecimal characters per byte
RECURSIVE EncodeToString(_)
EncodeToString(bs) ==
    IF bs = <<>> THEN ""
    ELSE HexChars[(bs[1] \div 16) + 1] \o HexChars[(bs[1] % 16) + 1]
             \o EncodeToString(Tail(bs))

\* mapDb.go line 22: c := hex.EncodeToString([]byte(strconv.Itoa(i)))
Key(i) == EncodeToString(Bytes(Itoa(i)))

\* mapDb.go lines 31-33: int(math.Ceil(math.Log(Size) / math.Log(16))), the
\* least d with 16^d >= c
RECURSIVE Pow16(_)
Pow16(d) == IF d = 0 THEN 1 ELSE 16 * Pow16(d - 1)
RECURSIVE CeilLog16From(_, _)
CeilLog16From(c, d) == IF Pow16(d) >= c THEN d ELSE CeilLog16From(c, d + 1)
CeilLog16(c) == CeilLog16From(c, 0)

\* addMap (mapDb.go lines 19-28) on the map at `path` of `root`: the sixteen
\* maps it makes and the sixteen goroutines it starts
MadeBy(root, path) ==
    {[root |-> root, path |-> Append(path, Key(i))] : i \in 0..(Fanout - 1)}
StartedBy(root, path, size) ==
    {[root |-> root, path |-> Append(path, Key(i)), size |-> size - 1] :
        i \in 0..(Fanout - 1)}

\* func (db MapDb) init(): the receiver is a copy of the handle, what init
\* assigns to db.MapStor and db.MapLookup is gone when it returns (line 29)
HandleAfterCall(before, db) == before

\* one call of init() on the handle (mapDb.go lines 29-40), with the addMap
\* call of line 35
InitCall ==
    /\ initCalls < MaxInitCalls
    /\ LET db == [MapStor |-> hMapStor, MapLookup |-> hMapLookup]
           makeStor == db.MapStor = 0
           makeLookup == db.MapLookup = 0
           root == storAllocs + 1
           size == CeilLog16(cfgSize)
           after == [MapStor |-> IF makeStor THEN root ELSE db.MapStor,
                     MapLookup |-> IF makeLookup THEN lookupAllocs + 1
                                   ELSE db.MapLookup]
           h == HandleAfterCall(db, after)
       IN /\ storAllocs' = IF makeStor THEN storAllocs + 1 ELSE storAllocs
          /\ lookupAllocs' = IF makeLookup THEN lookupAllocs + 1 ELSE lookupAllocs
          /\ containers' = IF makeStor
                           THEN containers \cup {[root |-> root, path |-> <<>>]}
                                    \cup MadeBy(root, <<>>)
                           ELSE containers
          /\ tasks' = IF makeStor THEN tasks \cup StartedBy(root, <<>>, size)
                      ELSE tasks
          /\ hMapStor' = h.MapStor
          /\ hMapLookup' = h.MapLookup
    /\ initCalls' = initCalls + 1
    /\ UNCHANGED <<dvars, svars, logChan, cfgSize, stillMade, ran, pvars>>

\* one goroutine go addMap(m[c], size-1) runs (mapDb.go lines 19-28, started
\* at line 24): nothing in addMap tests size
RunTask ==
    /\ ran < MaxTasks
    /\ \E t \in tasks :
         /\ containers' = containers \cup MadeBy(t.root, t.path)
         /\ stillMade' = stillMade \cup MadeBy(t.root, t.path)
         /\ tasks' = (tasks \ {t}) \cup StartedBy(t.root, t.path, t.size)
    /\ ran' = ran + 1
    /\ UNCHANGED <<dvars, svars, logChan, cfgSize, hMapStor, hMapLookup, initCalls,
                   storAllocs, lookupAllocs, pvars>>

(* ------------------- FileRecord.PeerList: compact peers ---------------- *)
\* the texts of announce_log.ip tried, as sequences of characters
IPTexts ==
    { <<"1", "9", "2", ".", "0", ".", "2", ".", "1">>,
      <<"2", "0", "3", ".", "0", ".", "1", "1", "3", ".", "5">>,
      <<"1", "0", ".", "0", ".", "0", ".", "2", "5", "5">>,
      <<"2", "5", "6", ".", "1", ".", "1", ".", "1">>,
      <<"1", ".", "2", ".", "3">>,
      <<"l", "o", "c", "a", "l", "h", "o", "s", "t">> }
\* the values of announce_log.port tried (Port uint16)
Ports == {0, 6881, 51413, 65535}
PeerRows == [ip : IPTexts, port : Ports]
RowSeqs == UNION {[1..n -> PeerRows] : n \in 0..MaxRows}

DecDigits == {"0", "1", "2", "3", "4", "5", "6", "7", "8", "9"}
DigitVal(c) == CHOOSE d \in 0..9 : HexChars[d + 1] = c

\* the fields of s between the separators sep
RECURSIVE SplitOn(_, _)
SplitOn(s, sep) ==
    IF \A k \in 1..Len(s) : s[k] # sep THEN <<s>>
    ELSE LET k == CHOOSE j \in 1..Len(s) :
                     s[j] = sep /\ \A h \in 1..(j - 1) : s[h] # sep
         IN <<SubSeq(s, 1, k - 1)>> \o SplitOn(SubSeq(s, k + 1, Len(s)), sep)

\* the decimal value of a sequence of digit characters
RECURSIVE DecVal(_)
DecVal(ds) ==
    IF ds = <<>> THEN 0
    ELSE 10 * DecVal(SubSeq(ds, 1, Len(ds) - 1)) + DigitVal(ds[Len(ds)])

\* net.ParseIP on a dotted-decimal text: four fields of digits, each at most
\* 255, give the 16-byte form of the address; anything else gives nil (<<>>)
ParseIP(s) ==
    LET f == SplitOn(s, ".")
        ok == /\ Len(f) = 4
              /\ \A k \in 1..4 :
                    /\ f[k] # <<>>
                    /\ Len(f[k]) <= 3
                    /\ \A j \in 1..Len(f[k]) : f[k][j] \in DecDigits
                    /\ DecVal(f[k]) <= 255
    IN IF ok
       THEN <<0, 0, 0, 0, 0, 0, 0, 0, 0, 0, 255, 255>>
                \o [k \in 1..4 |-> DecVal(f[k])]
       ELSE <<>>

\* IP.To4: the last four bytes of a 16-byte IPv4 address, nil otherwise
To4(ip) ==
    IF /\ Len(ip) = 16
       /\ \A k \in 1..10 : ip[k] = 0
       /\ ip[11] = 255 /\ ip[12] = 255
    THEN SubSeq(ip, 13, 16)
    ELSE <<>>

\* binary.BigEndian.Uint32 and PutUint32 (fileRecord.go line 140).  The
\* uint32 is kept as its two 16-bit halves: b[0]<<24 | b[1]<<16 is hi * 65536
Uint32(b) == [hi |-> b[1] * 256 + b[2], lo |-> b[3] * 256 + b[4]]
PutUint32(v) == <<v.hi \div 256, v.hi % 256, v.lo \div 256, v.lo % 256>>

\* PutUint16 storing the low byte first
PutUint16LittleEndian(v) == <<v % 256, v \div 256>>

\* binary.BigEndian.PutUint16 (fileRecord.go line 144)
PutUint16(v) == <<v \div 256, v % 256>>

\* lines 95-101 and 112-128: DbConnect, buf := make([]byte, 0), db.Queryx
PeerListCall ==
    /\ plPc = "idle"
    /\ \E fail \in {"none", "connect", "query"} :
         /\ plFail' = fail
         /\ openConns' = IF fail = "connect" THEN openConns ELSE openConns + 1
         /\ logChan' = IF fail = "none" THEN logChan
                       ELSE Append(logChan, "err.Error()")
         /\ plPc' = IF fail = "none" THEN "loop" ELSE "returned"
    /\ plBuf' = <<>>
    /\ plIdx' = 0
    /\ UNCHANGED <<dvars, svars, tvars, qvars, plRows>>

\* lines 131-148: one pass of for rows.Next().  Uint32 indexes b[3]: on the
\* nil slice of an address that is not IPv4 it panics, and nothing recovers
PeerListRow ==
    /\ plPc = "loop"
    /\ plIdx < Len(plRows)
    /\ LET peer == plRows[plIdx + 1]
           ip4 == To4(ParseIP(peer.ip))
       IN IF Len(ip4) < 4
          THEN /\ plPc' = "panicked"
               /\ UNCHANGED <<plBuf, plIdx>>
          ELSE /\ plBuf' = plBuf \o PutUint32(Uint32(ip4)) \o PutUint16(peer.port)
               /\ plIdx' = plIdx + 1
               /\ plPc' = plPc
    /\ logChan' = Append(logChan, "peer: [ip, port]")
    /\ UNCHANGED <<dvars, svars, tvars, qvars, openConns, plRows, plFail>>

\* line 150: return buf, once rows.Next() is false
PeerListReturn ==
    /\ plPc = "loop"
    /\ plIdx = Len(plRows)
    /\ plPc' = "returned"
    /\ UNCHANGED <<dvars, svars, tvars, qvars, logChan, openConns, plRows, plFail, plIdx,
                   plBuf>>

(* ------------------ the persistent store: Save and Load ---------------- *)
FileIds == {1, 2}
UserIds == {1, 2}
\* the rows of files_users tried: a seeder, a leecher, an inactive user
FileUserRows ==
    {[file_id |-> f, user_id |-> u, active |-> k[1], completed |-> k[2], left |-> k[3]] :
        f \in FileIds, u \in UserIds,
        k \in {<<TRUE, TRUE, 0>>, <<TRUE, FALSE, 5>>, <<FALSE, FALSE, 5>>}}
\* FileRecord{} and the FileRecord values tried
ZeroFile == [Id |-> 0, InfoHash |-> "", Completed |-> 0]
FileRecords ==
    {ZeroFile, [Id |-> 1, InfoHash |-> "aa", Completed |-> 3],
     [Id |-> 2, InfoHash |-> "bb", Completed |-> 0]}
\* the receivers of Save: a record of each entity type
Entities ==
    {[type |-> "AnnounceLog"], [type |-> "FileRecord"], [type |-> "UserRecord"]}
        \cup {[type |-> "FileUserRecord", row |-> r] : r \in FileUserRows}

\* the process is gone once a panic has not been recovered
Alive == ~last.aborted /\ plPc # "panicked"

\* what Save() returns when step `fail` of it fails (fileRecord.go lines
\* 16-34; part_001 lines 53-69, 252-275, 301-322): false after a failed
\* DbConnect; db.MustBegin() panics; the results of tx.Execl and tx.Commit
\* are dropped and line 34 returns true
SaveResult(fail) ==
    CASE fail = "connect" -> "false"
      [] fail = "begin" -> "panic"
      [] OTHER -> "true"

\* INSERT ... ON DUPLICATE KEY UPDATE on files_users, keyed (file_id, user_id)
Upsert(table, r) ==
    {x \in table : ~(x.file_id = r.file_id /\ x.user_id = r.user_id)} \cup {r}

\* one call of Save() on an entity
SaveOp ==
    /\ Alive /\ sqlOps < MaxOps
    /\ \E e \in Entities, fail \in {"none", "connect", "begin", "exec", "commit"} :
         /\ last' = [op |-> "Save", recv |-> e, fail |-> fail,
                     result |-> SaveResult(fail),
                     aborted |-> SaveResult(fail) = "panic"]
         /\ openConns' = IF fail = "connect" THEN openConns ELSE openConns + 1
         /\ logChan' = IF fail = "connect" THEN Append(logChan, "err.Error()")
                       ELSE logChan
         /\ filesUsers' = IF fail = "none" /\ e.type = "FileUserRecord"
                          THEN Upsert(filesUsers, e.row) ELSE filesUsers
    /\ sqlOps' = sqlOps + 1
    /\ UNCHANGED <<dvars, svars, tvars, plRows, plPc, plFail, plIdx, plBuf, mvars>>

\* what FileRecord.Load returns (fileRecord.go lines 38-50): the receiver f
\* as it is when DbConnect fails (line 43); otherwise f = FileRecord{}, which
\* db.Get fills with the row found, if any
LoadResult(f, fail, hit) ==
    CASE fail = "connect" -> f
      [] fail = "get" -> ZeroFile
      [] OTHER -> hit

\* one call of f.Load(id, col); hit is what the SELECT finds (ZeroFile: no row)
LoadOp ==
    /\ Alive /\ sqlOps < MaxOps
    /\ \E f \in FileRecords, hit \in FileRecords, fail \in {"none", "connect", "get"} :
         /\ last' = [op |-> "Load", recv |-> f, fail |-> fail,
                     result |-> LoadResult(f, fail, hit), aborted |-> FALSE]
         /\ openConns' = IF fail = "connect" THEN openConns ELSE openConns + 1
         /\ logChan' = IF fail = "connect" THEN Append(logChan, "err.Error()")
                       ELSE logChan
    /\ sqlOps' = sqlOps + 1
    /\ UNCHANGED <<dvars, svars, tvars, plRows, plPc, plFail, plIdx, plBuf, filesUsers,
                   mvars>>

(* ---------------- the persistent store: Seeders, Leechers -------------- *)
\* SELECT COUNT(user_id) FROM files_users WHERE active = 1 AND completed = 1
\* AND `left` = 0 (fileRecord.go line 69): the query names no file
SeederRows(table, f) == {r \in table : r.active /\ r.completed /\ r.left = 0}

\* SELECT COUNT(user_id) FROM files_users WHERE active = 1 AND completed = 0
\* AND `left` > 0 (fileRecord.go line 90)
LeecherRows(table, f) == {r \in table : r.active /\ ~r.completed /\ r.left > 0}

\* one call of f.Seeders() or f.Leechers() (fileRecord.go lines 53-92)
CountOp ==
    /\ Alive /\ sqlOps < MaxOps
    /\ \E f \in FileRecords \ {ZeroFile}, op \in {"Seeders", "Leechers"},
          fail \in {"none", "connect"} :
         /\ last' = [op |-> op, recv |-> f, fail |-> fail,
                     result |-> IF fail = "connect" THEN 0
                                ELSE IF op = "Seeders"
                                THEN Cardinality(SeederRows(filesUsers, f))
                                ELSE Cardinality(LeecherRows(filesUsers, f)),
                     aborted |-> FALSE]
         /\ openConns' = IF fail = "connect" THEN openConns ELSE openConns + 1
         /\ logChan' = IF fail = "connect" THEN Append(logChan, "err.Error()")
                       ELSE logChan
    /\ sqlOps' = sqlOps + 1
    /\ UNCHANGED <<dvars, svars, tvars, plRows, plPc, plFail, plIdx, plBuf, filesUsers,
                   mvars>>

(* ----------------------- MapDb: Write and Read ------------------------ *)
\* the content hashes and the record versions tried
HashKeys == {"a1", "b2"}
Versions == {"v1", "v2"}
\* the requests handed to Write and Read: Data of one of the three types the
\* switch names, with its content hash
MapRequests ==
    [type : {"AnnounceLog", "FileRecord", "FileUserRecord"}, key : HashKeys,
     value : Versions]
NoReply == "nothing"

\* func (db MapDb) Write(req Request) (mapDb.go lines 43-50): every case of
\* the type switch is empty, the store is left as it was
AfterWrite(data, req) ==
    CASE req.type = "AnnounceLog" -> data
      [] req.type = "FileRecord" -> data
      [] req.type = "FileUserRecord" -> data
      [] OTHER -> data

\* func (db MapDb) Read(req Request) (mapDb.go lines 51-58): every case is
\* empty and the function has no result; the caller is handed nothing
ReadReply(data, req) ==
    CASE req.type = "AnnounceLog" -> NoReply
      [] req.type = "FileRecord" -> NoReply
      [] req.type = "FileUserRecord" -> NoReply
      [] OTHER -> NoReply

MapWrite ==
    /\ mapOps < MaxMapOps
    /\ \E req \in MapRequests :
         /\ mapData' = AfterWrite(mapData, req)
         /\ mapWrites' = Append(mapWrites, req)
    /\ mapOps' = mapOps + 1
    /\ UNCHANGED <<dvars, svars, logChan, tvars, openConns, plRows, plPc, plFail,
                   plIdx, plBuf, filesUsers, sqlOps, last, mapRead>>

MapRead ==
    /\ mapOps < MaxMapOps
    /\ \E req \in MapRequests :
         mapRead' = [key |-> req.key, at |-> Len(mapWrites),
                     reply |-> ReadReply(mapData, req)]
    /\ mapOps' = mapOps + 1
    /\ UNCHANGED <<dvars, svars, logChan, tvars, openConns, plRows, plPc, plFail,
                   plIdx, plBuf, filesUsers, sqlOps, last, mapData, mapWrites>>

(* --------------------------- specifications ---------------------------- *)
\* DbManager has made its channels and started the goroutine (lines 16-37)
InitCommon ==
    /\ cfgMap \in BOOLEAN
    /\ cfgSql \in BOOLEAN
    /\ submitted = 0
    /\ reqPending = {}
    /\ persPending = {}
    /\ dpc = "L39"
    /\ hold = NoReq
    /\ mapRequestChan = <<>>
    /\ sqlReceiving \in BOOLEAN
    /\ mapRecvd = 0
    /\ taken = <<>>
    /\ mapEnq = <<>>
    /\ sqlEnq = <<>>
    /\ logChan = <<>>
    /\ shutdownChan = <<>>
    /\ signalled = FALSE
    /\ spc = "L26"
    /\ dbBusy = FALSE
    /\ mapBusy = FALSE
    /\ sqlBusy = FALSE
    /\ events = <<>>

\* a fresh handle: mapDb := new(MapDb) (line 16)
InitHandle ==
    /\ hMapStor = 0
    /\ hMapLookup = 0
    /\ containers = {}
    /\ tasks = {}
    /\ stillMade = {}
    /\ initCalls = 0
    /\ storAllocs = 0
    /\ lookupAllocs = 0
    /\ ran = 0

\* no persistent-store operation has been called
InitStoreIdle ==
    /\ openConns = 0
    /\ plPc = "idle"
    /\ plFail = "none"
    /\ plIdx = 0
    /\ plBuf = <<>>
    /\ filesUsers = {}
    /\ sqlOps = 0
    /\ last = [op |-> "none", recv |-> "none", fail |-> "none", result |-> "none",
               aborted |-> FALSE]
    /\ mapData = {}
    /\ mapWrites = <<>>
    /\ mapRead = [key |-> "none", at |-> 0, reply |-> "none"]
    /\ mapOps = 0

Init ==
    /\ InitCommon /\ InitHandle /\ InitStoreIdle
    /\ load = "mixed" /\ cfgSize \in {16} /\ plRows = <<>>

Routing ==
    \/ Submit
    \/ ChooseMode
    \/ RecvGeneral
    \/ RecvPersistent
    \/ SendMap
    \/ SendSql
    \/ NoDatabase
    \/ MapConsume
    \/ SqlBackendReceive

Shutdown ==
    \/ SetBusy
    \/ SignalShutdown
    \/ WaiterRecv
    \/ ShutdownWait
    \/ ShutdownRelay
    \/ CallMapShutdown
    \/ MapShutdownPoll
    \/ MapShutdownReturn
    \/ CallSqlShutdown
    \/ SqlShutdownReturn
    \/ SendDone

Next == Routing \/ Shutdown

Spec == Init /\ [][Next]_vars

\* Spec under the scheduling the claims about termination assume: every
\* goroutine of DbManager that can take a step eventually takes it, the other
\* shutdown-waiters receive the values sent on Static.ShutdownChan, and the
\* logger and the supervisor receive on Static.LogChan and dbDoneChan
FairSpec ==
    /\ Spec
    /\ WF_vars(ChooseMode) /\ WF_vars(RecvGeneral) /\ WF_vars(RecvPersistent)
    /\ WF_vars(SendMap) /\ WF_vars(SendSql) /\ WF_vars(NoDatabase)
    /\ WF_vars(WaiterRecv) /\ WF_vars(ShutdownWait) /\ WF_vars(ShutdownRelay)
    /\ WF_vars(CallMapShutdown) /\ WF_vars(MapShutdownPoll)
    /\ WF_vars(MapShutdownReturn) /\ WF_vars(CallSqlShutdown)
    /\ WF_vars(SqlShutdownReturn) /\ WF_vars(SendDone)

\* the burst workload: with the map store enabled, one caller submits more
\* writes on the general channel than mapRequestChan holds; no shutdown is
\* signalled, the goroutine stays parked at line 26
InitBurst ==
    /\ InitCommon /\ InitHandle /\ InitStoreIdle
    /\ load = "burst" /\ cfgMap /\ cfgSize \in {16} /\ plRows = <<>>

NextBurst ==
    \/ Submit
    \/ ChooseMode
    \/ RecvGeneral
    \/ SendMap
    \/ SendSql
    \/ MapConsume
    \/ SqlBackendReceive

SpecBurst == InitBurst /\ [][NextBurst]_vars

\* the map store alone: init() is called on the handle and the goroutines of
\* addMap run; DbManager has not started routing
InitTrie ==
    /\ InitCommon /\ InitHandle /\ InitStoreIdle /\ plRows = <<>>
    /\ load = "mixed" /\ cfgMap /\ ~cfgSql /\ ~sqlReceiving
    /\ cfgSize \in Capacities

NextTrie == InitCall \/ RunTask

SpecTrie == InitTrie /\ [][NextTrie]_vars

\* the common start of the specifications of the persistent store: DbManager
\* runs in sql-only mode and has not started routing
InitSqlOnly ==
    /\ InitCommon /\ InitHandle /\ InitStoreIdle
    /\ load = "mixed" /\ ~cfgMap /\ cfgSql /\ ~sqlReceiving /\ cfgSize \in {16}

\* one PeerList call on the rows its query returns
InitPeers == InitSqlOnly /\ plRows \in RowSeqs

NextPeers == PeerListCall \/ PeerListRow \/ PeerListReturn

SpecPeers == InitPeers /\ [][NextPeers]_vars

\* the operations of the persistent store, called one after the other; the
\* PeerList query returns one row
InitSql ==
    /\ InitSqlOnly
    /\ plRows = <<[ip |-> <<"1", "0", ".", "0", ".", "0", ".", "2", "5", "5">>,
                   port |-> 6881]>>

NextSql ==
    \/ SaveOp
    \/ LoadOp
    \/ CountOp
    \/ PeerListCall
    \/ PeerListRow
    \/ PeerListReturn

SpecSql == InitSql /\ [][NextSql]_vars

\* Write and Read called on the map store, one after the other
InitMapStore ==
    /\ InitCommon /\ InitHandle /\ InitStoreIdle
    /\ load = "mixed" /\ cfgMap /\ ~cfgSql /\ ~sqlReceiving /\ cfgSize \in {16}
    /\ plRows = <<>>

NextMapStore == MapWrite \/ MapRead

SpecMapStore == InitMapStore /\ [][NextMapStore]_vars

(* ------------------------------ claims --------------------------------- *)
\* r was received from the general channel / the persistent-intent channel
IsGeneral(r) == r.via = General
IsPersistent(r) == r.via = Persistent
BothMode == cfgMap /\ cfgSql
MapOnly == cfgMap /\ ~cfgSql
SqlOnly == ~cfgMap /\ cfgSql
\* e occurs in the goroutine's history, and a occurs before b
Happened(e) == e \in Range(events)
Before(a, b) ==
    \E i, j \in 1..Len(events) : i < j /\ events[i] = a /\ events[j] = b

\* C1: with both flags true, a request taken from the general channel with
\* non-nil Data is sent exactly once on mapRequestChan and exactly once on
\* sqlRequestChan; one with nil Data exactly once on mapRequestChan and never
\* on sqlRequestChan; one taken from the persistent-intent channel exactly once
\* on sqlRequestChan and never on mapRequestChan.  (A request that DbManager
\* still holds has the sends of the lines it has passed, each at most once.)
C1_RoutingFanOut ==
    BothMode =>
      /\ Range(mapEnq) \cup Range(sqlEnq) \subseteq Range(taken)
      /\ \A i \in 1..Len(taken) :
           LET r == taken[i]
               m == Count(mapEnq, r)
               q == Count(sqlEnq, r)
           IN /\ m <= 1 /\ q <= 1
              /\ (IsGeneral(r) /\ r.data # Nil /\ r # hold) => (m = 1 /\ q = 1)
              /\ (IsGeneral(r) /\ r.data = Nil) => (q = 0 /\ (r # hold => m = 1))
              /\ IsPersistent(r) => (m = 0 /\ (r # hold => q = 1))

\* C1 witness: both flags true, a general write and a persistent-intent
\* request have both been taken and fully forwarded
C1_Witness ==
    /\ BothMode
    /\ hold = NoReq
    /\ \E r \in Range(taken) : IsGeneral(r) /\ r.data # Nil /\ r \in Range(sqlEnq)
    /\ \E r \in Range(taken) : IsPersistent(r) /\ r \in Range(sqlEnq)

\* C2 as stated: in every mode, a general-channel request with nil Data is
\* never sent on sqlRequestChan
C2_Original ==
    \A r \in Range(sqlEnq) : ~(IsGeneral(r) /\ r.data = Nil)

\* C2 amended: when the map store is enabled (both flags, or map only), a
\* general-channel request with nil Data is never sent on sqlRequestChan; with
\* only the persistent store enabled, every general-channel request, nil Data
\* included, is sent on sqlRequestChan
C2_NilNotPersistedWithMap ==
    /\ cfgMap => \A r \in Range(sqlEnq) : ~(IsGeneral(r) /\ r.data = Nil)
    /\ SqlOnly => \A r \in Range(taken) : r = hold \/ Count(sqlEnq, r) = 1

\* C2 witness: both flags true, a nil-Data general request went to the map
\* channel and DbManager is back at its select
C2_Witness ==
    /\ BothMode
    /\ hold = NoReq
    /\ \E r \in Range(mapEnq) : IsGeneral(r) /\ r.data = Nil

\* C3: MapDb.Shutdown has returned before SqlDb.Shutdown is called, and the
\* done signal is sent only after the Shutdown of every enabled backend returned
C3_ShutdownOrder ==
    /\ (cfgMap /\ Happened("SqlDb.Shutdown"))
          => Before("MapDb.Shutdown returned", "SqlDb.Shutdown")
    /\ Happened("done") =>
          /\ cfgMap => Before("MapDb.Shutdown returned", "done")
          /\ cfgSql => Before("SqlDb.Shutdown returned", "done")

\* C3 witness: both backends enabled, shutdown signalled, done sent
C3_Witness == BothMode /\ signalled /\ Happened("done")

\* C4 as stated: once the shutdown goroutine has received the signal, the
\* routing loop takes no request and sends nothing on either backend channel
C4_NoRoutingAfterShutdown ==
    [][spc # "L26" => (taken' = taken /\ mapEnq' = mapEnq /\ sqlEnq' = sqlEnq)]_vars

\* the sends the mode and the payload of r require
NeedsMap(r) == cfgMap /\ IsGeneral(r)
NeedsSql(r) ==
    \/ BothMode /\ (IsPersistent(r) \/ r.data # Nil)
    \/ SqlOnly /\ IsGeneral(r)
AllForwarded ==
    \A r \in Range(taken) :
        /\ NeedsMap(r) => r \in Range(mapEnq)
        /\ NeedsSql(r) => r \in Range(sqlEnq)

\* C5 as stated: at the step that sends the done signal, every request taken
\* so far has been sent on every backend channel it needs
C5_NothingHeldAtDone ==
    [][(~Happened("done") /\ Happened("done")') => AllForwarded']_vars

\* C7 as stated: with both flags true, while the persistent backend is not
\* receiving, DbManager is never parked on a send to sqlRequestChan when a
\* general-channel request waits and mapRequestChan has room
C7_SqlNeverBlocksMapTraffic ==
    (BothMode /\ ~sqlReceiving /\ reqPending # {}
         /\ Len(mapRequestChan) < MapChanCap)
      => dpc \notin SqlSendLines

\* C6 as stated: while mapRequestChan is full, a general-channel write that
\* has not been sent on it is still with its caller, parked on the inbound
\* send: DbManager has not taken it
C6_Original ==
    (cfgMap /\ Len(mapRequestChan) = MapChanCap) =>
        SelectSeq(taken, IsGeneral) = mapEnq

\* C6 amended: mapRequestChan never holds more than 100 requests, nothing sent
\* on it is discarded or overwritten (it holds exactly the requests sent and
\* not yet received, in order), every submitted request is parked with its
\* caller or was taken, and a taken general request that is not yet on the
\* channel is the last one taken, which DbManager holds; when the channel is full DbManager has
\* released the caller of that request and is itself parked on the send, which
\* completes only after the map backend has received an entry
C6_Backpressure ==
    /\ Len(mapRequestChan) <= MapChanCap
    /\ mapRecvd <= Len(mapEnq)
    /\ mapRequestChan = SubSeq(mapEnq, mapRecvd + 1, Len(mapEnq))
    /\ submitted = Len(taken) + Cardinality(reqPending \cup persPending)
    /\ Range(taken) \cap (reqPending \cup persPending) = {}
    /\ cfgMap =>
         LET g == SelectSeq(taken, IsGeneral) IN
         \/ g = mapEnq
         \/ g = Append(mapEnq, hold) /\ dpc \in MapSendLines
    /\ (Len(mapRequestChan) = MapChanCap /\ dpc \in MapSendLines) => ~ENABLED SendMap

\* C6 witness: 100 requests buffered and none received, DbManager holds the
\* next write, parked on the send, and a later caller is parked behind it
C6_Witness ==
    /\ Len(mapRequestChan) = MapChanCap
    /\ mapRecvd = 0
    /\ dpc \in MapSendLines
    /\ IsGeneral(hold) /\ hold.data # Nil
    /\ hold \notin Range(mapEnq)
    /\ reqPending # {}

\* C8 as stated: if shutdown is signalled and the Busy flags of the backends,
\* set at some time, are cleared and stay cleared, then under FairSpec the
\* Shutdown calls return and the done signal is sent
C8_ShutdownLive ==
    (<>signalled /\ <>[](~mapBusy /\ ~sqlBusy)) => <>Happened("done")

\* C9 as stated, its safety part: every container of the trie lies at most
\* D = ceil(log16(Size)) levels below the root, and every level is keyed by
\* single hexadecimal digits 0-f
C9_TrieShape ==
    \A c \in containers :
        /\ Len(c.path) <= CeilLog16(cfgSize)
        /\ \A k \in Range(c.path) : k \in HexDigits

\* C10 as stated: once init() has returned, the handle's MapStor and MapLookup
\* exist and each has been allocated exactly once, however many calls followed
C10_InitIdempotent ==
    initCalls >= 1 =>
        /\ hMapStor # 0 /\ hMapLookup # 0
        /\ storAllocs = 1 /\ lookupAllocs = 1

\* the text of an IPv4 address: its octets in decimal, joined by dots
DigitChars(ds) == [k \in 1..Len(ds) |-> HexChars[ds[k] + 1]]
FormatIPv4(b) ==
    DigitChars(Itoa(b[1])) \o <<".">> \o DigitChars(Itoa(b[2])) \o <<".">>
        \o DigitChars(Itoa(b[3])) \o <<".">> \o DigitChars(Itoa(b[4]))
\* a compact buffer read six bytes at a time
DecodePeers(buf) ==
    [i \in 1..(Len(buf) \div 6) |->
        [ip |-> FormatIPv4(SubSeq(buf, 6 * i - 5, 6 * i - 2)),
         port |-> buf[6 * i - 1] * 256 + buf[6 * i]]]
ValidIPv4(text) == Len(To4(ParseIP(text))) = 4
ExampleIP == <<"1", "9", "2", ".", "0", ".", "2", ".", "1">>

\* C11: when every row has a valid IPv4 address, PeerList returns 6*n bytes,
\* the i-th record being the i-th row's octets then the high and the low byte
\* of its port ((192.0.2.1, 6881) gives C0 00 02 01 1A E1), and the buffer
\* read six bytes at a time gives back the rows; while the rows are scanned
\* the buffer holds the records of the rows scanned so far
C11_CompactEncoding ==
    (plFail = "none" /\ plPc \in {"loop", "returned"}) =>
       /\ Len(plBuf) = 6 * plIdx
       /\ DecodePeers(plBuf) = SubSeq(plRows, 1, plIdx)
       /\ \A i \in 1..plIdx :
             /\ \A k \in 1..6 : plBuf[6 * (i - 1) + k] \in 0..255
             /\ (plRows[i].ip = ExampleIP /\ plRows[i].port = 6881) =>
                   SubSeq(plBuf, 6 * i - 5, 6 * i) = <<192, 0, 2, 1, 26, 225>>
       /\ plPc = "returned" =>
             (plIdx = Len(plRows) /\ \A i \in 1..Len(plRows) : ValidIPv4(plRows[i].ip))

\* C11 witness: PeerList has returned the records of two valid rows, the
\* first of them (192.0.2.1, 6881)
C11_Witness ==
    /\ plPc = "returned" /\ plFail = "none"
    /\ Len(plRows) = 2 /\ Len(plBuf) = 12
    /\ plRows[1].ip = ExampleIP /\ plRows[1].port = 6881
    /\ plRows[2].port = 51413

\* C12 as stated: a row whose IP is not a valid IPv4 address contributes no
\* bytes, the other rows are encoded unchanged, and the call does not abort
\* the process
C12_InvalidRowFailsAlone ==
    /\ plPc # "panicked"
    /\ (plPc = "returned" /\ plFail = "none") =>
          DecodePeers(plBuf) = SelectSeq(plRows, LAMBDA r : ValidIPv4(r.ip))

\* C13 as stated: Save() returns false whenever the connection, the begin,
\* the statement or the commit fails, true only when the statement was
\* executed and committed, and no failure ends the process
C13_SaveReportsFailure ==
    last.op = "Save" =>
        /\ last.result # "panic"
        /\ (last.result = "true") <=> (last.fail = "none")

\* C14 as stated: when the store cannot be reached, Load returns the zero
\* value whatever the receiver holds, and PeerList returns an empty result
C14_ZeroOnConnectFailure ==
    /\ (last.op = "Load" /\ last.fail = "connect") => last.result = ZeroFile
    /\ (plPc = "returned" /\ plFail = "connect") => plBuf = <<>>

\* the users having a row of `rows`
UsersOf(rows) == {r.user_id : r \in rows}

\* C18 as stated: Seeders() of a file is the number of distinct users with a
\* row of that file having active=1, completed=1, left=0, and Leechers()
\* the number with active=1, completed=0, left>0; the rows of other files
\* change neither count
C18_CountsPerFile ==
    (last.op \in {"Seeders", "Leechers"} /\ last.fail = "none") =>
        last.result =
            Cardinality(UsersOf(
                {r \in filesUsers :
                    /\ r.file_id = last.recv.Id
                    /\ r.active
                    /\ IF last.op = "Seeders" THEN r.completed /\ r.left = 0
                       ELSE ~r.completed /\ r.left > 0}))

\* C20 as stated: once the operations called so far have all returned, no
\* connection is open
C20_ConnectionsReleased ==
    plPc \in {"idle", "returned"} => openConns = 0

\* C15 as stated: in map-only mode every request taken from the general
\* channel is sent on mapRequestChan (once DbManager no longer holds it),
\* nothing reaches sqlRequestChan, and a request submitted on the
\* persistent-intent channel is eventually consumed, so that its submitter
\* is released
C15_MapOnlyDropsPersistent ==
    /\ [](MapOnly =>
            /\ sqlEnq = <<>>
            /\ \A r \in Range(mapEnq) : IsGeneral(r)
            /\ \A r \in Range(taken) : (IsGeneral(r) /\ r # hold) => Count(mapEnq, r) = 1)
    /\ \A r \in [id : 1..MaxReq, data : {Nil, Payload}, via : {Persistent}] :
          (MapOnly /\ r \in persPending) ~> (r \notin persPending)

NoDatabaseMode == ~cfgMap /\ ~cfgSql
\* a step of the routing code of DbManager
DbManagerStep ==
    ChooseMode \/ RecvGeneral \/ RecvPersistent \/ SendMap \/ SendSql \/ NoDatabase

\* C16: with both flags false DbManager takes no request from either inbound
\* channel and sends nothing on either backend channel; it reaches only the
\* final else, where it sends the notice "No database in use." exactly once,
\* and it has then returned: no step of its routing code is left to take
C16_NoDatabaseIdle ==
    NoDatabaseMode =>
        /\ taken = <<>> /\ mapEnq = <<>> /\ sqlEnq = <<>>
        /\ mapRequestChan = <<>> /\ hold = NoReq
        /\ dpc \in {"L39", "L68", "returned"}
        /\ Count(logChan, "No database in use.") = IF dpc = "returned" THEN 1 ELSE 0
        /\ dpc = "returned" => ~ENABLED DbManagerStep

\* the notice was sent and DbManager has returned while callers are parked
\* on both inbound channels
C16_Witness ==
    /\ NoDatabaseMode /\ dpc = "returned"
    /\ logChan = <<"No database in use.">>
    /\ reqPending # {} /\ persPending # {}

\* C19 as stated: addMap called with remaining depth zero starts no task, so
\* every task was started by a call with remaining depth at least 1 and has
\* itself a remaining depth of at least 0
C19_NoTaskBelowDepthZero ==
    \A t \in tasks : t.size >= 0

\* the signal of a Read that found nothing under the key
NotFound == "not found"
\* the Writes to the key of the last Read that came before it
WritesRead ==
    LET SameKey(w) == w.key = mapRead.key
    IN SelectSeq(SubSeq(mapWrites, 1, mapRead.at), SameKey)

\* C17 as stated: a Read of a key returns the value of the latest Write to
\* that key, and not found when the key was never written
C17_ReadReturnsLatestWrite ==
    mapRead.key # "none" =>
        mapRead.reply = IF WritesRead = <<>> THEN NotFound
                        ELSE WritesRead[Len(WritesRead)].value

\* C21 as stated: the trie is complete when init() returns; no task started
\* by addMap makes a container after that
C21_TrieFixedAfterInit ==
    stillMade = {}

\* the lines of the shutdown goroutine before the call of mapDb.Shutdown, and
\* those after the call of sqlDb.Shutdown
BeforeMapCall == {"L26", "L26s", "L27", "L29"}
AfterSqlCall == {"L33", "L36", "end"}

\* C22: in each of the four modes, once the shutdown signal is received the
\* goroutine calls Shutdown on an enabled backend exactly once on its way to
\* the done signal (never before the signal, never a second time), never
\* calls it on a disabled backend, and sends done at most once
C22_ShutdownOncePerBackend ==
    /\ Count(events, "MapDb.Shutdown") =
          IF cfgMap /\ spc \notin BeforeMapCall THEN 1 ELSE 0
    /\ Count(events, "SqlDb.Shutdown") =
          IF cfgSql /\ spc \in AfterSqlCall THEN 1 ELSE 0
    /\ Count(events, "done") = IF spc = "end" THEN 1 ELSE 0
    /\ Count(events, "MapDb.Shutdown returned") <= Count(events, "MapDb.Shutdown")
    /\ Count(events, "SqlDb.Shutdown returned") <= Count(events, "SqlDb.Shutdown")

\* map-only mode after one shutdown signal: MapDb.Shutdown was called once,
\* SqlDb.Shutdown never, and done was sent
C22_Witness ==
    /\ MapOnly /\ signalled /\ spc = "end"
    /\ Count(events, "MapDb.Shutdown") = 1
    /\ Count(events, "SqlDb.Shutdown") = 0
    /\ Count(events, "done") = 1

\* a is an initial part of b
IsPrefix(a, b) == Len(a) <= Len(b) /\ SubSeq(b, 1, Len(a)) = a
\* the requests taken that still miss a send they need
NotForwarded ==
    {r \in Range(taken) :
        \/ NeedsMap(r) /\ r \notin Range(mapEnq)
        \/ NeedsSql(r) /\ r \notin Range(sqlEnq)}

\* C23: in every mode the requests sent on mapRequestChan are requests taken
\* from the general channel, in the order they were taken, and the buffer
\* hands them to the map backend in that order; the requests sent on
\* sqlRequestChan are in the order DbManager took them from its inbound
\* channels; and at most one taken request, the one DbManager holds, still
\* misses a send
C23_OrderPerBackend ==
    /\ IsPrefix(mapEnq, SelectSeq(taken, NeedsMap))
    /\ IsPrefix(sqlEnq, SelectSeq(taken, NeedsSql))
    /\ mapRequestChan = SubSeq(mapEnq, Len(mapEnq) - Len(mapRequestChan) + 1, Len(mapEnq))
    /\ Cardinality(NotForwarded) <= 1
    /\ NotForwarded \subseteq {hold}

\* both backends enabled: a persistent-intent request, then a general write
\* were taken, and each backend channel got its requests in that order
C23_Witness ==
    /\ BothMode /\ hold = NoReq
    /\ Len(taken) = 2
    /\ IsPersistent(taken[1]) /\ IsGeneral(taken[2]) /\ taken[2].data # Nil
    /\ sqlEnq = taken
    /\ mapEnq = <<taken[2]>>

====
